---- MODULE Spec2Model ----
(***************************************************************************)
(* The vector-search command line tool of src/src/main.rs: one process     *)
(* per invocation, each running one of the commands Collections, Create,   *)
(* Count or Search against a shared relational store and a shared search   *)
(* engine.  Every external call (.send().await?, .exec().await?) is one    *)
(* atomic step that either takes effect and answers, or returns Err.       *)
(* The engine answers a request that reaches it according to its state: a  *)
(* non-success status is an Ok response to the code (as the exists check   *)
(* of Create relies on), and the code reads the status nowhere else.       *)
(***************************************************************************)
EXTENDS Integers, Sequences, FiniteSets, TLC

\* ---------------------------------------------------------------- bounds
\* Invocations of the binary over the whole run.
MaxRuns == 3
\* Largest --top-k tried.
MaxTopK == 2
\* Longest input of embed_batch tried.
MaxTexts == 3
\* Saturation of the per-command counters of external calls.
CallCap == 2

\* ----------------------------------------------------- program constants
DEFAULT_COLLECTION_NAME == "search"
MODEL_DIM == 384
\* --threshold, default_value = "0.6", as the fraction ThresholdNum / ThresholdDen
ThresholdNum == 6
ThresholdDen == 10

\* Concurrently running invocations of the binary.
Procs == {1, 2}

\* Texts the embedding model is given.
Texts == {"cat", "dog", "stock"}
\* Texts given as <content> and as <query>.
Contents == {"cat", "stock"}
Queries == {"cat", "dog"}

\* The embedding model: a fixed function from text to vector.
Embed(t) ==
    CASE t = "cat" -> <<5, 0>>
      [] t = "dog" -> <<4, 3>>
      [] OTHER     -> <<0, 5>>

\* ------------------------------------------------------------ embed_batch
EmbedOutcomes == {"ok", "err", "panic"}

\* EMBEDDER.embed(texts, Some(256)): one vector per text, in input order, or
\* an Err; the Lazy initialiser panics when the model cannot be loaded.
EMBEDDER_embed(texts, outcome) ==
    [status  |-> outcome,
     vecs    |-> IF outcome = "ok" THEN [i \in DOMAIN texts |-> Embed(texts[i])]
                 ELSE <<>>,
     invoked |-> TRUE]

embed_batch_no_empty_check(texts, outcome) ==
    EMBEDDER_embed(texts, outcome)

embed_batch(texts, outcome) ==
    IF texts = <<>>
    THEN [status |-> "ok", vecs |-> <<>>, invoked |-> FALSE]
    ELSE EMBEDDER_embed(texts, outcome)

\* ------------------------------------------------------- cosine similarity
RECURSIVE DotFrom(_, _, _)
DotFrom(a, b, i) ==
    IF i > Len(a) THEN 0 ELSE a[i] * b[i] + DotFrom(a, b, i + 1)

Dot(a, b) == DotFrom(a, b, 1)

Abs(x) == IF x < 0 THEN 0 - x ELSE x

\* The score of vector v against query q under "similarity": "cosine", kept
\* exact as the signed square of the cosine, num / den.
CosineScore(v, q) ==
    [num |-> Dot(v, q) * Abs(Dot(v, q)), den |-> Dot(v, v) * Dot(q, q)]

\* s is at least as good as t.
ScoreGeq(s, t) == s.num * t.den >= t.num * s.den

\* s is not worse than the threshold ThresholdNum / ThresholdDen.
PassesThreshold(s) ==
    s.num * ThresholdDen * ThresholdDen >= ThresholdNum * ThresholdNum * s.den

\* ------------------------------------------------------------------ state
VARIABLES
    proc,      \* per invocation: position in main and its local variables
    es,        \* the search engine: the collection and its documents
    store,     \* the rows of the relational table
    nextUuid,  \* the next identifier Uuid::now_v7 returns
    runs,      \* invocations started so far
    ebTexts,   \* embed_batch on its own: the input
    ebPc,      \*   "ready" or "returned"
    ebRes      \*   the value returned

vars == <<proc, es, store, nextUuid, runs, ebTexts, ebPc, ebRes>>

NoCmd == [kind |-> "none", text |-> "", top_k |-> 0]

Commands ==
    {[kind |-> "Collections", text |-> "", top_k |-> 0],
     [kind |-> "Count", text |-> "", top_k |-> 0]}
    \cup {[kind |-> "Create", text |-> t, top_k |-> 0] : t \in Contents}
    \cup {[kind |-> "Search", text |-> t, top_k |-> k] : t \in Queries, k \in 1..MaxTopK}

NoResp == [status |-> 0, error |-> "", hits |-> <<>>]
NoOut == [label |-> "", resp |-> NoResp, rows |-> 0]

NewProc ==
    [pc           |-> "idle",
     cmd          |-> NoCmd,
     db           |-> "none",
     connects     |-> 0,
     index_exists |-> FALSE,
     embedding    |-> <<>>,
     uuid         |-> 0,
     out          |-> NoOut,
     exit         |-> "none",
     calls        |-> [create |-> 0, embed |-> 0, insert |-> 0, index |-> 0],
     errs         |-> {}]

EsInit == [exists |-> FALSE, name |-> "", dims |-> 0, similarity |-> "", docs |-> {}]

MainInit ==
    /\ proc = [p \in Procs |-> NewProc]
    /\ es = EsInit
    /\ store = {}
    /\ nextUuid = 1
    /\ runs = 0

EmbedIdle ==
    /\ ebTexts = <<>>
    /\ ebPc = "ready"
    /\ ebRes = [status |-> "", vecs |-> <<>>, invoked |-> FALSE]

Init == MainInit /\ EmbedIdle

\* ------------------------------------------------------ helpers of main
Bump(n) == IF n < CallCap THEN n + 1 ELSE n

Running(r) == r.pc \notin {"idle", "exited"}

\* main has returned or unwound: its locals are gone; a connection that was
\* not closed by close() is dropped with them.
Exited(r, how) ==
    [r EXCEPT !.pc = "exited", !.exit = how,
              !.db = IF @ = "open" THEN "dropped" ELSE @,
              !.index_exists = FALSE, !.embedding = <<>>]

\* `?` on an Err: main returns early, close() is not called.
Fail(r) == Exited(r, "err")

\* A panic (expect, unwrap) unwinds out of main.
Panic(r) == Exited(r, "panic")

Set(p, r) == proc' = [proc EXCEPT ![p] = r]

MainOnly == UNCHANGED <<ebTexts, ebPc, ebRes>>

SameRuns == UNCHANGED runs

\* match args.commands
Dispatch(c) ==
    CASE c.kind = "Collections" -> "cat_indices"
      [] c.kind = "Create"      -> "c_exists"
      [] c.kind = "Count"       -> "count"
      [] OTHER                  -> "s_embed"

NeedsCreate_always(index_exists) == TRUE

\* if !index_exists { create }
NeedsCreate(index_exists) == ~index_exists

AfterEmbed_retry(ok) == IF ok THEN "c_insert" ELSE "c_embed"

\* embed_batch(..)?: where main goes after the call.
AfterEmbed(ok) == IF ok THEN "c_insert" ELSE "exited"

AfterInsert_ignore_err(ok) == "c_index"

\* insert(..).exec(&db_conn).await?: where main goes after the call.
AfterInsert(ok) == IF ok THEN "c_index" ELSE "exited"

\* es.index(..).send().await?: where main goes after the call.
AfterIndex(ok) == IF ok THEN "close" ELSE "exited"

\* ----------------------------------------------------- the search engine
\* indices().create: creates the collection when absent; on an existing
\* collection the engine answers resource_already_exists and changes nothing.
IndicesCreate(e) ==
    IF e.exists THEN e
    ELSE [exists |-> TRUE, name |-> DEFAULT_COLLECTION_NAME, dims |-> MODEL_DIM,
          similarity |-> "cosine", docs |-> {}]

\* IndexParts::IndexId(collection, id): the document stored under id, replacing
\* any document already stored under it.
IndexDoc(e, id, vector, content) ==
    [e EXCEPT !.docs = {d \in @ : d.id # id}
                       \cup {[id |-> id, vector |-> vector, content |-> content]}]

\* Uuid::now_v7(): time-ordered, a value no earlier call has returned.
Uuid_now_v7(clock) == clock

DocId_fixed(uuid) == ToString(1)

\* &uuid.to_string()
DocId(uuid) == ToString(uuid)

Hit(d, q) == [id |-> d.id, score |-> CosineScore(d.vector, q), content |-> d.content]

\* Every best-first order of the documents (ties in any order).
Rankings(docs, q) ==
    LET n == Cardinality(docs)
    IN  {s \in [1..n -> docs] :
            /\ \A i, j \in 1..n : i # j => s[i] # s[j]
            /\ \A i \in 1..n : \A j \in 1..n :
                 i < j => ScoreGeq(CosineScore(s[i].vector, q), CosineScore(s[j].vector, q))}

Min(a, b) == IF a < b THEN a ELSE b

TopK_untruncated(ranking, q, k) ==
    [i \in 1..Len(ranking) |-> Hit(ranking[i], q)]

\* "knn": {field: vector, query_vector: q, k: k}: the k best documents, best first.
TopK(ranking, q, k) ==
    [i \in 1..Min(k, Len(ranking)) |-> Hit(ranking[i], q)]

\* The bodies the search request can be answered with.
SearchResponses(e, q, k) ==
    IF ~e.exists
    THEN {[status |-> 404, error |-> "index_not_found_exception", hits |-> <<>>]}
    ELSE {[status |-> 200, error |-> "", hits |-> TopK(s, q, k)] : s \in Rankings(e.docs, q)}

\* ---------------------------------------------------------------- main
\* Cli::parse(): a new invocation with its command line.
Launch(p) ==
    /\ proc[p].pc \in {"idle", "exited"}
    /\ runs < MaxRuns
    /\ runs' = runs + 1
    /\ \E c \in Commands : Set(p, [NewProc EXCEPT !.pc = "connect", !.cmd = c])
    /\ UNCHANGED <<es, store, nextUuid>> /\ MainOnly

\* Database::connect(connect_opts).await?
Connect(p) ==
    /\ proc[p].pc = "connect"
    /\ \E ok \in BOOLEAN :
         Set(p, IF ok
                THEN [proc[p] EXCEPT !.pc = "es_client", !.db = "open",
                                     !.connects = @ + 1]
                ELSE Fail(proc[p]))
    /\ UNCHANGED <<es, store, nextUuid>> /\ MainOnly /\ SameRuns

\* es_client(&args.cliargs.elastic_url).await?
EsClient(p) ==
    /\ proc[p].pc = "es_client"
    /\ \E ok \in BOOLEAN :
         Set(p, IF ok
                THEN [proc[p] EXCEPT !.pc = Dispatch(proc[p].cmd)]
                ELSE Fail(proc[p]))
    /\ UNCHANGED <<es, store, nextUuid>> /\ MainOnly /\ SameRuns

\* Commands::Collections
Collections(p) ==
    /\ proc[p].pc = "cat_indices"
    /\ \E ok \in BOOLEAN :
         Set(p, IF ok
                THEN [proc[p] EXCEPT !.pc = "close",
                                     !.out = [NoOut EXCEPT !.label = "indices"]]
                ELSE Fail(proc[p]))
    /\ UNCHANGED <<es, store, nextUuid>> /\ MainOnly /\ SameRuns

\* Commands::Count
Count(p) ==
    /\ proc[p].pc = "count"
    /\ \E ok \in BOOLEAN :
         Set(p, IF ok
                THEN [proc[p] EXCEPT !.pc = "close",
                                     !.out = [NoOut EXCEPT !.label = "rows",
                                                           !.rows = Cardinality(store)]]
                ELSE Fail(proc[p]))
    /\ UNCHANGED <<es, store, nextUuid>> /\ MainOnly /\ SameRuns

\* Commands::Create: es.indices().exists(..).send().await?.status_code().is_success()
CreateExists(p) ==
    /\ proc[p].pc = "c_exists"
    /\ \E ok \in BOOLEAN :
         Set(p, IF ok
                THEN [proc[p] EXCEPT !.index_exists = es.exists,
                                     !.pc = IF NeedsCreate(es.exists)
                                            THEN "c_create" ELSE "c_embed"]
                ELSE Fail(proc[p]))
    /\ UNCHANGED <<es, store, nextUuid>> /\ MainOnly /\ SameRuns

\* Commands::Create: es.indices().create(..).body(..).send().await?
CreateCollection(p) ==
    /\ proc[p].pc = "c_create"
    /\ \E ok \in BOOLEAN :
         IF ok
         THEN /\ es' = IndicesCreate(es)
              /\ Set(p, [proc[p] EXCEPT !.pc = "c_embed",
                                        !.calls.create = Bump(@)])
         ELSE /\ es' = es
              /\ Set(p, Fail([proc[p] EXCEPT !.calls.create = Bump(@)]))
    /\ UNCHANGED <<store, nextUuid>> /\ MainOnly /\ SameRuns

\* Commands::Create: embed_batch(vec![&create.content])?.pop().unwrap(); Uuid::now_v7()
CreateEmbed(p) ==
    /\ proc[p].pc = "c_embed"
    /\ \E outcome \in EmbedOutcomes :
         LET r == embed_batch(<<proc[p].cmd.text>>, outcome)
             q == [proc[p] EXCEPT !.calls.embed = Bump(@),
                                  !.errs = IF r.status = "ok" THEN @ ELSE @ \cup {"embed"}]
         IN  IF r.status = "panic" \/ (r.status = "ok" /\ r.vecs = <<>>)
             THEN Set(p, Panic(q)) /\ nextUuid' = nextUuid
             ELSE IF AfterEmbed(r.status = "ok") = "exited"
             THEN Set(p, Fail(q)) /\ nextUuid' = nextUuid
             ELSE /\ Set(p, [q EXCEPT !.pc = AfterEmbed(r.status = "ok"),
                                      !.embedding = IF r.vecs = <<>> THEN <<>>
                                                    ELSE r.vecs[Len(r.vecs)],
                                      !.uuid = Uuid_now_v7(nextUuid)])
                  /\ nextUuid' = nextUuid + 1
    /\ UNCHANGED <<es, store>> /\ MainOnly /\ SameRuns

\* Commands::Create: entity::search::Entity::insert(search_row).exec(&db_conn).await?
\* The id is the primary key: a second row under an id is refused.
CreateInsert(p) ==
    /\ proc[p].pc = "c_insert"
    /\ \E ok \in BOOLEAN :
         LET stored == ok /\ \A r \in store : r.id # proc[p].uuid
             q == [proc[p] EXCEPT !.calls.insert = Bump(@),
                                  !.errs = IF stored THEN @ ELSE @ \cup {"insert"}]
         IN  /\ store' = IF stored
                         THEN store \cup {[id |-> q.uuid, vector |-> q.embedding,
                                           content |-> q.cmd.text]}
                         ELSE store
             /\ Set(p, IF AfterInsert(stored) = "exited" THEN Fail(q)
                       ELSE [q EXCEPT !.pc = AfterInsert(stored)])
    /\ UNCHANGED <<es, nextUuid>> /\ MainOnly /\ SameRuns

\* Commands::Create: es.index(IndexParts::IndexId(..)).body(..).send().await?; println!("done.")
CreateIndexDoc(p) ==
    /\ proc[p].pc = "c_index"
    /\ \E ok \in BOOLEAN :
         LET q == [proc[p] EXCEPT !.calls.index = Bump(@),
                                  !.errs = IF ok THEN @ ELSE @ \cup {"index"}]
         IN  /\ es' = IF ok
                      THEN IndexDoc(es, DocId(q.uuid), q.embedding, q.cmd.text)
                      ELSE es
             /\ Set(p, IF AfterIndex(ok) = "exited" THEN Fail(q)
                       ELSE [q EXCEPT !.pc = AfterIndex(ok),
                                      !.out = [NoOut EXCEPT !.label = "done."]])
    /\ UNCHANGED <<store, nextUuid>> /\ MainOnly /\ SameRuns

\* Commands::Search: embed_batch(vec![&search.query])?.pop().unwrap()
SearchEmbed(p) ==
    /\ proc[p].pc = "s_embed"
    /\ \E outcome \in EmbedOutcomes :
         LET r == embed_batch(<<proc[p].cmd.text>>, outcome)
             q == [proc[p] EXCEPT !.calls.embed = Bump(@)]
         IN  Set(p, IF r.status = "panic" \/ (r.status = "ok" /\ r.vecs = <<>>)
                    THEN Panic(q)
                    ELSE IF r.status = "err" THEN Fail(q)
                    ELSE [q EXCEPT !.pc = "s_search",
                                   !.embedding = r.vecs[Len(r.vecs)]])
    /\ UNCHANGED <<es, store, nextUuid>> /\ MainOnly /\ SameRuns

\* Commands::Search: es.search(..).body(..).send().await?.json().await?; println!("matches: ..")
SearchKnn(p) ==
    /\ proc[p].pc = "s_search"
    /\ \/ Set(p, Fail(proc[p]))
       \/ \E resp \in SearchResponses(es, proc[p].embedding, proc[p].cmd.top_k) :
            Set(p, [proc[p] EXCEPT !.pc = "close",
                                   !.out = [NoOut EXCEPT !.label = "matches",
                                                         !.resp = resp]])
    /\ UNCHANGED <<es, store, nextUuid>> /\ MainOnly /\ SameRuns

\* db_conn.close().await?; Ok(())
Close(p) ==
    /\ proc[p].pc = "close"
    /\ \E ok \in BOOLEAN :
         Set(p, IF ok
                THEN Exited([proc[p] EXCEPT !.db = "closed"], "ok")
                ELSE Fail(proc[p]))
    /\ UNCHANGED <<es, store, nextUuid>> /\ MainOnly /\ SameRuns

\* The process is killed between two steps.
Crash(p) ==
    /\ Running(proc[p])
    /\ Set(p, Exited([NewProc EXCEPT !.cmd = proc[p].cmd, !.db = proc[p].db,
                                      !.connects = proc[p].connects], "killed"))
    /\ UNCHANGED <<es, store, nextUuid>> /\ MainOnly /\ SameRuns

Next ==
    \E p \in Procs :
        \/ Launch(p)
        \/ Connect(p)
        \/ EsClient(p)
        \/ Collections(p)
        \/ Count(p)
        \/ CreateExists(p)
        \/ CreateCollection(p)
        \/ CreateEmbed(p)
        \/ CreateInsert(p)
        \/ CreateIndexDoc(p)
        \/ SearchEmbed(p)
        \/ SearchKnn(p)
        \/ Close(p)
        \/ Crash(p)

Spec == Init /\ [][Next]_vars

\* ------------------------------------------- embed_batch, called on its own
RECURSIVE SeqsUpTo(_, _)
SeqsUpTo(S, n) ==
    IF n = 0 THEN {<<>>}
    ELSE LET shorter == SeqsUpTo(S, n - 1)
         IN  shorter \cup {Append(s, x) : s \in shorter, x \in S}

InitEmbed ==
    /\ MainInit
    /\ ebTexts \in SeqsUpTo(Texts, MaxTexts)
    /\ ebPc = "ready"
    /\ ebRes = [status |-> "", vecs |-> <<>>, invoked |-> FALSE]

EmbedBatchCall ==
    /\ ebPc = "ready"
    /\ \E outcome \in EmbedOutcomes : ebRes' = embed_batch(ebTexts, outcome)
    /\ ebPc' = "returned"
    /\ UNCHANGED <<ebTexts, proc, es, store, nextUuid, runs>>

NextEmbed == EmbedBatchCall

SpecEmbed == InitEmbed /\ [][NextEmbed]_vars

\* ---------------------------------------------------------------- claims
Creating(p) == proc[p].cmd.kind = "Create"
Searching(p) == proc[p].cmd.kind = "Search"
Hits(p) == proc[p].out.resp.hits
DocsUnder(id) == {d \in es.docs : d.id = id}
RowsUnder(uuid) == {r \in store : r.id = uuid}

\* Process p issues its create-collection request in this step.
CreateRequestIssued(p) ==
    proc[p].pc = "c_create" /\ proc'[p].calls.create = 1

\* C1: a Create is at its index write only when its own row is in the store,
\* and in every reachable state (after an abort or a kill between two steps
\* too) every document id of the index is the id of a row of the store.
C1_IndexAfterStore ==
    /\ \A p \in Procs : proc[p].pc = "c_index" => RowsUnder(proc[p].uuid) # {}
    /\ \A d \in es.docs : \E r \in store : ToString(r.id) = d.id

\* A Create was killed, a row has no document, and another row has one.
C1_Witness ==
    /\ \E p \in Procs : Creating(p) /\ proc[p].exit = "killed"
    /\ \E r \in store : DocsUnder(ToString(r.id)) = {}
    /\ es.docs # {}

\* C2 as stated: once every command has run to its end, with success or with
\* an error, every row of the store has exactly one document in the index.
C2_Original ==
    (\A p \in Procs : ~Running(proc[p]) /\ proc[p].exit # "killed")
        => \A r \in store : Cardinality(DocsUnder(ToString(r.id))) = 1

C4_Original ==
    \A p \in Procs :
        proc[p].out.label = "matches"
            => \A i \in DOMAIN Hits(p) : PassesThreshold(Hits(p)[i].score)

C6_AbortNoRetry ==
    \A p \in Procs :
        Creating(p) =>
            /\ proc[p].calls.embed <= 1
            /\ proc[p].calls.insert <= 1
            /\ proc[p].calls.index <= 1
            /\ (proc[p].errs \cap {"embed", "insert"} # {})
                 => /\ proc[p].pc = "exited"
                    /\ proc[p].exit \in {"err", "panic"}
                    /\ proc[p].calls.index = 0
                    /\ proc[p].uuid # 0 => DocsUnder(ToString(proc[p].uuid)) = {}
                    /\ proc[p].out.label # "done."

\* A Create ended on a failed store insert.
C6_Witness ==
    \E p \in Procs :
        Creating(p) /\ "insert" \in proc[p].errs /\ proc[p].exit = "err"

\* C7 as stated: a Search answered with "no such collection" has an empty
\* result set and is reported under an indication of its own, not as matches.
C7_Original ==
    \A p \in Procs :
        (Searching(p) /\ proc[p].out.resp.status = 404)
            => /\ Hits(p) = <<>>
               /\ proc[p].out.label = "collection not found"

\* C8 as stated: the connection is established once before the command is
\* dispatched, and a run that established it ends with it closed, whether the
\* command succeeded or failed.
C8_Original ==
    \A p \in Procs :
        /\ proc[p].pc \notin {"idle", "connect", "exited"}
             => proc[p].connects = 1 /\ proc[p].db = "open"
        /\ (proc[p].exit \in {"ok", "err", "panic"} /\ proc[p].connects >= 1)
             => proc[p].connects = 1 /\ proc[p].db = "closed"

\* C9: embed_batch of no text returns no vector and no error without calling
\* the model; a successful embed_batch of n texts returns n vectors, the i-th
\* the embedding of the i-th text.
C9_EmbedBatch ==
    ebPc = "returned" =>
        /\ ebTexts = <<>>
             => ebRes.status = "ok" /\ ebRes.vecs = <<>> /\ ~ebRes.invoked
        /\ (ebTexts # <<>> /\ ebRes.status = "ok")
             => /\ ebRes.invoked
                /\ Len(ebRes.vecs) = Len(ebTexts)
                /\ \A i \in DOMAIN ebTexts : ebRes.vecs[i] = Embed(ebTexts[i])

\* embed_batch has returned from a call with no text.
C9_Witness == ebPc = "returned" /\ ebTexts = <<>> /\ ebRes.status = "ok"

\* C10: every document of the index has the id, the vector and the content of
\* one row of the store, no two rows and no two documents share an id, two
\* Creates never hold the same id, and no step replaces or removes a row or a
\* document.
C10_OneIdBothWrites ==
    /\ [](/\ \A d \in es.docs : \E r \in store :
               ToString(r.id) = d.id /\ r.vector = d.vector /\ r.content = d.content
          /\ \A r1, r2 \in store : r1.id = r2.id => r1 = r2
          /\ \A d1, d2 \in es.docs : d1.id = d2.id => d1 = d2
          /\ \A p, q \in Procs :
               (p # q /\ proc[p].uuid # 0) => proc[p].uuid # proc[q].uuid)
    /\ [][store \subseteq store' /\ es.docs \subseteq es'.docs]_vars

\* Two Creates of different content have both written their row and document.
C10_Witness ==
    \E d1, d2 \in es.docs :
        /\ d1.id # d2.id /\ d1.content # d2.content
        /\ \E r1, r2 \in store : ToString(r1.id) = d1.id /\ ToString(r2.id) = d2.id

====
